---- MODULE Spec2Model ----
(***************************************************************************)
(* Relic Recon API: the triage orchestration engine of api/main.py (TTL    *)
(* cache, stub and live adapters, timeout handling, evidence log) and the  *)
(* simpler cached stub handler of api/test_main.py.                        *)
(*                                                                         *)
(* Time is counted in seconds.  Strings that are concatenated by the code  *)
(* (targets, cache keys) are sequences of characters.  CVSS scores are     *)
(* counted in tenths (7.5 is 75).                                          *)
(***************************************************************************)
EXTENDS Integers, Sequences, FiniteSets, TLC

\* ---------------------------------------------------------------- bounds
MaxRequests == 2
MaxClock == 940
MaxLogCalls == 3
MaxLogSeconds == 1
MaxKeyParts == 2
MaxWriters == 3

\* ------------------------------------------------------- program constants
CACHE_TTL == 900
UI_CAP == 8
HTTP_TIMEOUT == 8
SIZE_CAP == 200000
NVD_PAGE_CAP == 10
SUMMARY_CAP == 240
MAX_SIZE == 1048576
CACHE_TTL_SECONDS == 900

Min(a, b) == IF a < b THEN a ELSE b
Max(a, b) == IF a > b THEN a ELSE b

\* the inputs of the environment
Inputs ==
    { [ target |-> << "a" >>, depth |-> "quick",    include_enrichment |-> TRUE ],
      [ target |-> << "a" >>, depth |-> "standard", include_enrichment |-> TRUE ] }
TickSteps == { 15 }
IdleSteps == { CACHE_TTL - 1, CACHE_TTL, CACHE_TTL + 1 }

VARIABLES
    STUB_MODE,      \* main.py:14, fixed at process start
    LOW_DATA,       \* main.py:15, fixed at process start
    now,            \* the wall clock read by datetime.now() / utcnow()
    cache,          \* main.py:33  key -> [data, timestamp]
    reqs,           \* the running triage invocations of main.py, in order of arrival
    arrived,        \* how many triage invocations have started
    completed,      \* how many missed the cache and returned a response
    last,           \* what the last step did
    calls,          \* how often each adapter was invoked
    fs,             \* api/evidence.log and its rotated backups
    evidence,       \* how often log_evidence was called
    _cache,         \* test_main.py:34  key -> [ts, data]
    t_last          \* what the last step of test_main.py did

vars == << STUB_MODE, LOW_DATA, now, cache, reqs, arrived, completed, last, calls, fs, evidence,
          _cache, t_last >>

\* ------------------------------------------------------------ strings
Chars(s) ==
    CASE s = "quick"    -> << "q", "u", "i", "c", "k" >>
      [] s = "standard" -> << "s", "t", "a", "n", "d", "a", "r", "d" >>
      [] s = "True"     -> << "T", "r", "u", "e" >>
      [] s = "False"    -> << "F", "a", "l", "s", "e" >>
      [] s = "stub"     -> << "s", "t", "u", "b" >>
      [] s = "nvd"      -> << "n", "v", "d" >>

StrBool(b) == IF b THEN "True" ELSE "False"

\* main.py:143 without the depth
cache_key_without_depth(target, depth, include_enrichment, stub) ==
    target \o << ":" >> \o Chars(StrBool(include_enrichment)) \o << ":" >>
           \o Chars(IF stub THEN "stub" ELSE "nvd")

\* main.py:143
cache_key(target, depth, include_enrichment, stub) ==
    target \o << ":" >> \o Chars(depth) \o << ":" >>
           \o Chars(StrBool(include_enrichment)) \o << ":" >>
           \o Chars(IF stub THEN "stub" ELSE "nvd")

\* main.py:17
MAX_RESULTS(low) == IF low THEN 10 ELSE 25

\* main.py:154
Limit(depth, low) == IF depth = "quick" THEN 5 ELSE MAX_RESULTS(low)

\* main.py:155
Timeout(depth) == IF depth = "quick" THEN 10 ELSE 20

\* ------------------------------------------------------------ TTL cache
Without(c, key) == [ k \in DOMAIN c \ { key } |-> c[k] ]

With(c, key, v) == [ k \in DOMAIN c \cup { key } |-> IF k = key THEN v ELSE c[k] ]

\* the comparison of main.py:59 the other way round
FreshReversed(timestamp, t) == t - timestamp > CACHE_TTL

\* main.py:59: the entry is served while it is younger than the TTL
Fresh(timestamp, t) == t - timestamp < CACHE_TTL

\* main.py:56-62: what get_cached returns, and the cache it leaves
get_cached(c, key, t) ==
    IF key \in DOMAIN c
    THEN IF Fresh(c[key].timestamp, t)
         THEN [ found |-> TRUE, data |-> c[key].data, cache |-> c ]
         ELSE [ found |-> FALSE, cache |-> Without(c, key) ]
    ELSE [ found |-> FALSE, cache |-> c ]

\* main.py:64-65 keeping an entry that is there already
set_cached_if_absent(c, key, data, t) ==
    IF key \in DOMAIN c THEN c ELSE With(c, key, [ data |-> data, timestamp |-> t ])

\* main.py:64-65 without the assignment
set_cached_dropped(c, key, data, t) == c

\* main.py:65 with the time of the process start in place of datetime.now()
set_cached_at_start(c, key, data, t) == With(c, key, [ data |-> data, timestamp |-> 0 ])

\* main.py:64-65
set_cached(c, key, data, t) == With(c, key, [ data |-> data, timestamp |-> t ])

\* ------------------------------------------------------------ stub adapters
\* main.py:67-78: records i = 0 .. min(3, limit) - 1
mock_cve_search(target, limit) ==
    [ j \in 1..Min(3, limit) |->
        [ cve_id   |-> [ prefix |-> "CVE-2024-", n |-> 1000 + (j - 1) ],
          cvss     |-> 75 - ((j - 1) * 5),
          summary  |-> << "Vulnerability in ", target, " component ", j >>,
          severity |-> IF j - 1 < 3 THEN "High" ELSE "Medium" ] ]

\* main.py:80-90
mock_github_search(target, limit) ==
    [ j \in 1..Min(2, limit) |->
        [ repo    |-> << "example/repo-", j >>,
          file    |-> << "config/", target, ".yml" >>,
          snippet |-> << "Potential exposure in ", target, " configuration" >> ] ]

\* ------------------------------------------------------------ exceptions
NoExc == [ type |-> "none", status |-> 0, detail |-> "" ]

Exc(type) == [ type |-> type, status |-> 0, detail |-> "" ]

HTTPException(status, detail) ==
    [ type |-> "HTTPException", status |-> status, detail |-> detail ]

\* ------------------------------------------------------------ upstream client
\* A Python dict is a function on its keys.
Get(d, k, default) == IF k \in DOMAIN d THEN d[k] ELSE default

EmptyDict == << >>

\* main.py:96-100: what _http_get_json makes of the upstream reply once it arrived
\* (headers is a dict; a content-length header is [isdigit, int])
_http_get_json(reply, size_cap) ==
    IF reply.status < 200 \/ reply.status > 299
    THEN [ exc |-> Exc("HTTPStatusError") ]
    ELSE IF /\ "content-length" \in DOMAIN reply.headers
            /\ reply.headers["content-length"].isdigit
            /\ reply.headers["content-length"].int > size_cap
         THEN [ exc |-> HTTPException(502, "Upstream too large") ]
         ELSE IF ~ reply.body.valid
              THEN [ exc |-> Exc("JSONDecodeError") ]
              ELSE [ exc |-> NoExc, data |-> reply.body.data ]

\* main.py:110 without the cap
ResultsPerPageUncapped(limit) == Max(1, limit)

\* main.py:110
ResultsPerPage(limit) == Max(1, Min(limit, NVD_PAGE_CAP))

\* str.title() on the severity names the upstream uses
Title(s) ==
    CASE s = "LOW"      -> "Low"
      [] s = "MEDIUM"   -> "Medium"
      [] s = "HIGH"     -> "High"
      [] s = "CRITICAL" -> "Critical"
      [] s = "NONE"     -> "None"
      [] OTHER          -> s

\* s[:n]
Slice(s, n) == SubSeq(s, 1, Min(n, Len(s)))

\* what the loop body of main.py:119-133 raises on a raw item, if anything
ItemRaises(v) ==
    LET c       == Get(v, "cve", EmptyDict)
        descs   == Get(c, "descriptions", << >>)
        metrics == Get(c, "metrics", EmptyDict)
    IN  \/ Len(descs) > 0 /\ "value" \notin DOMAIN descs[1]
        \/ "cvssMetricV31" \in DOMAIN metrics /\ Len(metrics["cvssMetricV31"]) = 0
        \/ /\ "cvssMetricV31" \notin DOMAIN metrics
           /\ "cvssMetricV2" \in DOMAIN metrics
           /\ Len(metrics["cvssMetricV2"]) = 0

\* main.py:119-133: one raw item to one record (cvss in tenths; None is [none |-> TRUE])
None == [ none |-> TRUE ]

\* main.py:125-132 with the two branches in the other order
NormalizeOldestFirst(v) ==
    LET c       == Get(v, "cve", EmptyDict)
        cve_id  == Get(c, "id", None)
        descs   == Get(c, "descriptions", << >>)
        summary == Slice(IF Len(descs) > 0 THEN descs[1]["value"] ELSE << "N", "/", "A" >>,
                         SUMMARY_CAP)
        metrics == Get(c, "metrics", EmptyDict)
        m31     == metrics["cvssMetricV31"][1]
        m2      == metrics["cvssMetricV2"][1]
        cvss    == IF "cvssMetricV2" \in DOMAIN metrics
                   THEN Get(Get(m2, "cvssData", EmptyDict), "baseScore",
                            Get(m2, "baseScore", 0))
                   ELSE IF "cvssMetricV31" \in DOMAIN metrics
                        THEN Get(Get(m31, "cvssData", EmptyDict), "baseScore", 0)
                        ELSE 0
        severity == IF "cvssMetricV2" \in DOMAIN metrics
                    THEN IF cvss # 0 /\ cvss >= 70 THEN "High" ELSE "Medium"
                    ELSE IF "cvssMetricV31" \in DOMAIN metrics
                         THEN Title(Get(m31, "baseSeverity", "Unknown"))
                         ELSE "Unknown"
    IN  [ cve_id |-> cve_id, cvss |-> cvss, summary |-> summary, severity |-> severity ]

Normalize(v) ==
    LET c       == Get(v, "cve", EmptyDict)
        cve_id  == Get(c, "id", None)
        descs   == Get(c, "descriptions", << >>)
        summary == Slice(IF Len(descs) > 0 THEN descs[1]["value"] ELSE << "N", "/", "A" >>,
                         SUMMARY_CAP)
        metrics == Get(c, "metrics", EmptyDict)
        m31     == metrics["cvssMetricV31"][1]
        m2      == metrics["cvssMetricV2"][1]
        cvss    == IF "cvssMetricV31" \in DOMAIN metrics
                   THEN Get(Get(m31, "cvssData", EmptyDict), "baseScore", 0)
                   ELSE IF "cvssMetricV2" \in DOMAIN metrics
                        THEN Get(Get(m2, "cvssData", EmptyDict), "baseScore",
                                 Get(m2, "baseScore", 0))
                        ELSE 0
        severity == IF "cvssMetricV31" \in DOMAIN metrics
                    THEN Title(Get(m31, "baseSeverity", "Unknown"))
                    ELSE IF "cvssMetricV2" \in DOMAIN metrics
                         THEN IF cvss # 0 /\ cvss >= 70 THEN "High" ELSE "Medium"
                         ELSE "Unknown"
    IN  [ cve_id |-> cve_id, cvss |-> cvss, summary |-> summary, severity |-> severity ]

\* main.py:112-134: _lookup_cves_nvd once the upstream reply arrived
_lookup_cves_nvd(reply) ==
    LET got == _http_get_json(reply, SIZE_CAP)
    IN  IF got.exc.type # "none"
        THEN [ exc |-> got.exc ]
        ELSE LET raw == Get(got.data, "vulnerabilities", << >>)
             IN  IF \E j \in 1..Len(raw) : ItemRaises(raw[j])
                 THEN [ exc |-> Exc("KeyError") ]
                 ELSE [ exc |-> NoExc, items |-> [ j \in 1..Len(raw) |-> Normalize(raw[j]) ] ]

\* ------------------------------------------------------------ shaping
CHECKS ==
    << "Verify CVE applicability to in-scope assets",
       "Review exposed configurations (passive only)",
       "Check TLS/headers and CSP",
       "Enumerate subdomains (passive)" >>

\* main.py:165-168, 173-176: both timestamps are read when the awaits have returned
Sources(stub, t) ==
    << [ tool |-> IF stub THEN "stub-cve" ELSE "nvd", timestamp |-> t ],
       [ tool |-> "stub-github", timestamp |-> t ] >>

\* main.py:178-190 without the slice of line 181
ShapeUncapped(target, cves, github_results, sources) ==
    [ assets    |-> << target >>,
      tech      |-> << "Unknown" >>,
      cves      |-> cves,
      exposures |-> [ j \in 1..Len(github_results) |-> github_results[j].snippet ],
      checks    |-> CHECKS,
      sources   |-> sources ]

\* main.py:178-190
Shape(target, cves, github_results, sources) ==
    [ assets    |-> << target >>,
      tech      |-> << "Unknown" >>,
      cves      |-> Slice(cves, UI_CAP),
      exposures |-> [ j \in 1..Len(github_results) |-> github_results[j].snippet ],
      checks    |-> CHECKS,
      sources   |-> sources ]

\* main.py:198-202 with the two except clauses in the other order
ExceptHandlerGeneric(exc) == HTTPException(502, "Upstream service error")

\* main.py:198-202 with HTTPException passed on as it was raised
ExceptHandlerLeaky(exc) ==
    IF exc.type = "TimeoutError"
    THEN HTTPException(504, "Request timeout")
    ELSE IF exc.type = "HTTPException"
         THEN exc
         ELSE HTTPException(502, "Upstream service error")

\* main.py:198-202: the HTTP error the handler raises for an exception of the try block
ExceptHandler(exc) ==
    IF exc.type = "TimeoutError"
    THEN HTTPException(504, "Request timeout")
    ELSE HTTPException(502, "Upstream service error")

\* ------------------------------------------------------------ evidence log
NoFile == [ exists |-> FALSE, content |-> << >> ]

RECURSIVE Bytes(_)
Bytes(content) ==
    IF Len(content) = 0 THEN 0 ELSE content[1].bytes + Bytes(Tail(content))

Digits(n) == IF n < 10 THEN 1 ELSE 2

\* a string is a sequence of pieces: a piece is one character, or BLOCK, which
\* stands for a run of 1 MiB characters (a target has a least length, main.py:38,
\* and no greatest)
BLOCK == "a * 1048576"

PieceLen(p) == IF p = BLOCK THEN 1048576 ELSE 1

\* len(s)
RECURSIVE StrLen(_)
StrLen(s) == IF Len(s) = 0 THEN 0 ELSE PieceLen(s[1]) + StrLen(Tail(s))

\* main.py:214: the line, and the bytes it takes:
\* "<26-character isoformat> | <target> | <n> CVEs | <m> exposures\n"
Line(target, response, t) ==
    [ kind      |-> "line",
      timestamp |-> t,
      target    |-> target,
      cves      |-> Len(response.cves),
      exposures |-> Len(response.exposures),
      bytes     |-> 26 + 3 + StrLen(target) + 3 + Digits(Len(response.cves)) + 8
                       + Digits(Len(response.exposures)) + 11 ]

\* main.py:211: strftime('%Y%m%d%H%M%S') names the second
Suffix(t) == t

\* the I/O step of log_evidence that fails, among those it performs on f
LogFailures(f) ==
    { "none", "open", "write" }
        \cup (IF f.log.exists THEN { "getsize" } ELSE { })
        \cup (IF f.log.exists /\ Bytes(f.log.content) > MAX_SIZE THEN { "rename" } ELSE { })

\* main.py:204-216 without the try of line 209: the I/O error leaves log_evidence
log_evidence_unguarded(f, target, response, t, fail) ==
    LET rotate  == f.log.exists /\ Bytes(f.log.content) > MAX_SIZE
        rotated == IF rotate
                   THEN [ log     |-> NoFile,
                          backups |-> With(f.backups, Suffix(t), f.log.content) ]
                   ELSE f
        opened  == [ rotated EXCEPT !.log.exists = TRUE ]
    IN  IF fail = "getsize" /\ f.log.exists
        THEN [ fs |-> f, error |-> TRUE, raised |-> TRUE ]
        ELSE IF fail = "rename" /\ rotate
             THEN [ fs |-> f, error |-> TRUE, raised |-> TRUE ]
             ELSE IF fail = "open"
                  THEN [ fs |-> rotated, error |-> TRUE, raised |-> TRUE ]
                  ELSE IF fail = "write"
                       THEN [ fs |-> opened, error |-> TRUE, raised |-> TRUE ]
                       ELSE [ fs     |-> [ opened EXCEPT !.log.content =
                                              Append(@, Line(target, response, t)) ],
                              error  |-> FALSE,
                              raised |-> FALSE ]

\* main.py:204-216: the files log_evidence leaves, whether it reported an error to
\* the logger, and whether an exception left it (none does: main.py:215 catches all)
log_evidence(f, target, response, t, fail) ==
    LET rotate  == f.log.exists /\ Bytes(f.log.content) > MAX_SIZE
        rotated == IF rotate
                   THEN [ log     |-> NoFile,
                          backups |-> With(f.backups, Suffix(t), f.log.content) ]
                   ELSE f
        opened  == [ rotated EXCEPT !.log.exists = TRUE ]
    IN  IF fail = "getsize" /\ f.log.exists
        THEN [ fs |-> f, error |-> TRUE, raised |-> FALSE ]
        ELSE IF fail = "rename" /\ rotate
             THEN [ fs |-> f, error |-> TRUE, raised |-> FALSE ]
             ELSE IF fail = "open"
                  THEN [ fs |-> rotated, error |-> TRUE, raised |-> FALSE ]
                  ELSE IF fail = "write"
                       THEN [ fs |-> opened, error |-> TRUE, raised |-> FALSE ]
                       ELSE [ fs     |-> [ opened EXCEPT !.log.content =
                                              Append(@, Line(target, response, t)) ],
                              error  |-> FALSE,
                              raised |-> FALSE ]

\* ------------------------------------------------------------ upstream replies
Metrics(k) ==
    CASE k % 3 = 0 -> [ cvssMetricV31 |->
                          << [ cvssData |-> [ baseScore |-> 98 ], baseSeverity |-> "CRITICAL" ] >> ]
      [] k % 3 = 1 -> [ cvssMetricV2 |-> << [ cvssData |-> [ baseScore |-> 50 ] ] >> ]
      [] OTHER     -> EmptyDict

RawItem(k) ==
    [ cve |-> [ id           |-> [ prefix |-> "CVE-", n |-> k ],
                descriptions |-> << [ value |-> << "d", k >> ] >>,
                metrics      |-> Metrics(k) ] ]

OkBody(n) == [ valid |-> TRUE, data |-> [ vulnerabilities |-> [ k \in 1..n |-> RawItem(k) ] ] ]

\* the replies the upstream service gives in the model
ReplyNames == { "many", "status500", "too_large", "bad_json", "bad_item" }

Reply(name) ==
    CASE name = "many"      -> [ status |-> 200,
                                 headers |-> [ x \in { "content-length" } |->
                                                 [ isdigit |-> TRUE, int |-> 4096 ] ],
                                 body |-> OkBody(UI_CAP + 1) ]
      [] name = "status500" -> [ status |-> 500, headers |-> EmptyDict, body |-> OkBody(0) ]
      [] name = "too_large" -> [ status |-> 200,
                                 headers |-> [ x \in { "content-length" } |->
                                                 [ isdigit |-> TRUE, int |-> SIZE_CAP + 1 ] ],
                                 body |-> OkBody(1) ]
      [] name = "bad_json"  -> [ status |-> 200, headers |-> EmptyDict,
                                 body |-> [ valid |-> FALSE ] ]
      [] name = "bad_item"  -> [ status |-> 200, headers |-> EmptyDict,
                                 body |-> [ valid |-> TRUE,
                                            data |-> [ vulnerabilities |->
                                                << [ cve |-> [ descriptions |-> << [ lang |-> "en" ] >> ] ] >> ] ] ]

\* ------------------------------------------------------------ initial state
EmptyCache == [ k \in { } |-> 0 ]

\* evidence.log outlives the process: it was left nearly full by earlier runs
InitialLogs ==
    { [ exists |-> TRUE, content |-> << [ kind |-> "old", bytes |-> MAX_SIZE - 10 ] >> ] }

Init ==
    /\ STUB_MODE \in BOOLEAN
    /\ LOW_DATA \in BOOLEAN
    /\ now = 0
    /\ cache = EmptyCache
    /\ reqs = << >>
    /\ arrived = 0
    /\ completed = 0
    /\ last = [ kind |-> "init" ]
    /\ calls = [ mock_cve_search |-> 0, mock_github_search |-> 0, _lookup_cves_nvd |-> 0 ]
    /\ fs \in { [ log |-> l, backups |-> EmptyCache ] : l \in InitialLogs }
    /\ evidence = 0
    /\ _cache = EmptyCache
    /\ t_last = [ kind |-> "init" ]

\* ------------------------------------------------------------ triage (main.py)
Deadline(r) == r.start + r.timeout

\* main.py:161-164 going on as soon as the vulnerability task has returned
ReadyEarly(r) ==
    \/ r.pc = "gather" /\ r.cves_task = "done"
    \/ r.pc = "github" /\ r.github_task = "done"

\* the awaited call of r has returned and triage can run on to its return
Ready(r) ==
    \/ r.pc = "gather" /\ r.cves_task = "done" /\ r.github_task = "done"
    \/ r.pc = "github" /\ r.github_task = "done"

RemoveAt(q, i) == SubSeq(q, 1, i - 1) \o SubSeq(q, i + 1, Len(q))

\* the record of a step that ended an invocation: the invocation, and the
\* counters as they were before the step
Returned(r, t) ==
    [ kind |-> "return", r |-> [ r EXCEPT !.pc = "done" ], t_end |-> t,
      calls0 |-> calls, evidence0 |-> evidence ]

Stepped(kind, r) == [ kind |-> "step" ]

Ret == last.kind = "return"

\* main.py:148-150 with the evidence record of line 195 written on a hit too
ServeCachedLogged(r, data) ==
    /\ reqs' = reqs
    /\ last' = Returned([ r EXCEPT !.hit = TRUE, !.status = 200, !.response = data ], now)
    /\ fs' = log_evidence(fs, r.target, data, now, "none").fs
    /\ evidence' = evidence + 1
    /\ UNCHANGED calls

\* main.py:148-150: the cached response is returned as it is
ServeCached(r, data) ==
    /\ reqs' = reqs
    /\ last' = Returned([ r EXCEPT !.hit = TRUE, !.status = 200, !.response = data ], now)
    /\ UNCHANGED << calls, fs, evidence >>

\* main.py:141-160, 171: from the entry of triage to its first await, or to the
\* return of the cached response.  In live mode the first await sends the one
\* request of _lookup_cves_nvd (main.py:108-116); requested holds the resultsPerPage
\* of every request the run has sent upstream.
TriageEnter(target, depth, include_enrichment) ==
    /\ arrived < MaxRequests
    /\ arrived' = arrived + 1
    /\ LET key  == cache_key(target, depth, include_enrichment, STUB_MODE)
           got  == get_cached(cache, key, now)
           r    == [ target |-> target, depth |-> depth,
                     include_enrichment |-> include_enrichment, key |-> key,
                     t0 |-> now, start |-> now,
                     seen |-> IF key \in DOMAIN cache THEN now - cache[key].timestamp ELSE -1,
                     evicted |-> LOW_DATA /\ key \in DOMAIN cache /\ key \notin DOMAIN got.cache,
                     kept |-> LOW_DATA => got.cache = cache,
                     limit |-> Limit(depth, LOW_DATA), timeout |-> Timeout(depth),
                     pc |-> "enter", hit |-> FALSE,
                     cves_task |-> "none", github_task |-> "none",
                     cves |-> << >>, github_results |-> << >>,
                     exc |-> NoExc, status |-> 0, detail |-> "", response |-> None,
                     invoked |-> 0, requested |-> << >>, log_error |-> FALSE ]
       IN  IF LOW_DATA /\ got.found
           THEN /\ cache' = got.cache
                /\ ServeCached(r, got.data)
           ELSE /\ cache' = IF LOW_DATA THEN got.cache ELSE cache
                /\ UNCHANGED << fs, evidence >>
                /\ IF STUB_MODE
                   THEN LET r1 == [ r EXCEPT !.pc = "gather", !.cves_task = "running",
                                             !.github_task = "running", !.invoked = 2 ]
                        IN  /\ reqs' = Append(reqs, r1)
                            /\ last' = Stepped("enter", r1)
                            /\ calls' = [ calls EXCEPT !.mock_cve_search = @ + 1,
                                                       !.mock_github_search = @ + 1 ]
                   ELSE LET r1 == [ r EXCEPT !.pc = "nvd", !.cves_task = "running",
                                             !.invoked = 1,
                                             !.requested = << ResultsPerPage(r.limit) >> ]
                        IN  /\ reqs' = Append(reqs, r1)
                            /\ last' = Stepped("enter", r1)
                            /\ calls' = [ calls EXCEPT !._lookup_cves_nvd = @ + 1 ]
    /\ UNCHANGED << STUB_MODE, LOW_DATA, now, completed, _cache, t_last >>

\* main.py:159: the task of mock_cve_search returns its records.  Its sleep of 0.1 s
\* is below the resolution of the clock: the task returns when the event loop runs
\* it, at any time up to the deadline of the wait_for around it.
MockCveDone(i) ==
    /\ reqs[i].pc = "gather"
    /\ reqs[i].cves_task = "running"
    /\ now <= Deadline(reqs[i])
    /\ reqs' = [ reqs EXCEPT ![i].cves_task = "done",
                             ![i].cves = mock_cve_search(reqs[i].target, reqs[i].limit) ]
    /\ last' = Stepped("task", reqs'[i])
    /\ UNCHANGED << STUB_MODE, LOW_DATA, now, cache, arrived, completed, calls, fs, evidence,
                    _cache, t_last >>

\* main.py:160, 172: mock_github_search returns its records (limit 2 in live mode)
MockGithubDone(i) ==
    /\ reqs[i].pc \in { "gather", "github" }
    /\ reqs[i].github_task = "running"
    /\ now <= Deadline(reqs[i])
    /\ reqs' = [ reqs EXCEPT ![i].github_task = "done",
                             ![i].github_results =
                                 mock_github_search(reqs[i].target,
                                     IF reqs[i].pc = "gather" THEN reqs[i].limit ELSE 2) ]
    /\ last' = Stepped("task", reqs'[i])
    /\ UNCHANGED << STUB_MODE, LOW_DATA, now, cache, arrived, completed, calls, fs, evidence,
                    _cache, t_last >>

\* main.py:198-202 with the awaited calls left running
RaiseWithoutCancel(r, exc) ==
    [ r EXCEPT !.exc = exc,
               !.status = ExceptHandler(exc).status,
               !.detail = ExceptHandler(exc).detail ]

\* the except clauses of main.py:198-202 end the invocation; what it awaited is
\* cancelled
Raise(r, exc) ==
    [ r EXCEPT !.exc = exc,
               !.status = ExceptHandler(exc).status,
               !.detail = ExceptHandler(exc).detail,
               !.cves_task = IF @ = "running" THEN "cancelled" ELSE @,
               !.github_task = IF @ = "running" THEN "cancelled" ELSE @ ]

\* main.py:171-172: the upstream reply arrives, _lookup_cves_nvd returns or raises;
\* on return triage goes on to await mock_github_search under a new wait_for
LookupDone(i, name) ==
    /\ reqs[i].pc = "nvd"
    /\ now <= Deadline(reqs[i])
    /\ LET res == _lookup_cves_nvd(Reply(name))
       IN  IF res.exc.type # "none"
           THEN /\ reqs' = RemoveAt(reqs, i)
                /\ last' = Returned(Raise([ reqs[i] EXCEPT !.cves_task = "failed" ],
                                          res.exc), now)
                /\ UNCHANGED calls
           ELSE /\ reqs' = [ reqs EXCEPT ![i].pc = "github",
                                         ![i].cves_task = "done",
                                         ![i].cves = res.items,
                                         ![i].start = now,
                                         ![i].github_task = "running",
                                         ![i].invoked = @ + 1 ]
                /\ last' = Stepped("task", reqs'[i])
                /\ calls' = [ calls EXCEPT !.mock_github_search = @ + 1 ]
    /\ UNCHANGED << STUB_MODE, LOW_DATA, now, cache, arrived, completed, fs, evidence,
                    _cache, t_last >>

\* main.py:94-95: the client gives up after a phase of the round trip took
\* timeout = 8.0 seconds; httpx raises httpx.TimeoutException
LookupClientTimeout(i) ==
    /\ reqs[i].pc = "nvd"
    /\ now - reqs[i].start >= HTTP_TIMEOUT
    /\ now <= Deadline(reqs[i])
    /\ reqs' = RemoveAt(reqs, i)
    /\ last' = Returned(Raise([ reqs[i] EXCEPT !.cves_task = "failed" ],
                              Exc("httpx.TimeoutException")), now)
    /\ UNCHANGED << STUB_MODE, LOW_DATA, now, cache, arrived, completed, calls, fs, evidence,
                    _cache, t_last >>

\* main.py:161-164, 171-172: wait_for gives up at its deadline, cancels what it
\* awaits and raises asyncio.TimeoutError
WaitForTimeout(i) ==
    /\ ~ Ready(reqs[i])
    /\ now >= Deadline(reqs[i])
    /\ reqs' = RemoveAt(reqs, i)
    /\ last' = Returned(Raise(reqs[i], Exc("TimeoutError")), now)
    /\ UNCHANGED << STUB_MODE, LOW_DATA, now, cache, arrived, completed, calls, fs, evidence,
                    _cache, t_last >>

\* main.py:165-196: the awaits have returned; shape, store, log, return.  An
\* exception that left log_evidence would reach the except clause of main.py:200.
TriageReturn(i, fail) ==
    /\ Ready(reqs[i])
    /\ fail \in LogFailures(fs)
    /\ LET r        == reqs[i]
           response == Shape(r.target, r.cves, r.github_results, Sources(STUB_MODE, now))
           logged   == log_evidence(fs, r.target, response, now, fail)
       IN  /\ cache' = IF LOW_DATA THEN set_cached(cache, r.key, response, now) ELSE cache
           /\ fs' = logged.fs
           /\ evidence' = evidence + 1
           /\ last' = IF logged.raised
                      THEN Returned(Raise([ r EXCEPT !.log_error = logged.error ],
                                          Exc("OSError")), now)
                      ELSE Returned([ r EXCEPT !.status = 200, !.response = response,
                                               !.log_error = logged.error ], now)
           /\ completed' = IF logged.raised THEN completed ELSE completed + 1
    /\ reqs' = RemoveAt(reqs, i)
    /\ UNCHANGED << STUB_MODE, LOW_DATA, now, arrived, calls, _cache, t_last >>

\* time passes while invocations wait, by a step or up to the next deadline; a
\* coroutine that can run does so first, and no wait_for deadline is passed over
Tick(d) ==
    /\ Len(reqs) > 0
    /\ d > 0
    /\ now + d <= MaxClock
    /\ \A i \in 1..Len(reqs) : ~ Ready(reqs[i]) /\ now + d <= Deadline(reqs[i])
    /\ now' = now + d
    /\ last' = [ kind |-> "step" ]
    /\ UNCHANGED << STUB_MODE, LOW_DATA, cache, reqs, arrived, completed, calls, fs, evidence,
                    _cache, t_last >>

\* the service is idle for about the time to live of the entries it caches
Idle(d) ==
    /\ Len(reqs) = 0
    /\ DOMAIN cache # { }
    /\ now + d <= MaxClock
    /\ now' = now + d
    /\ last' = [ kind |-> "step" ]
    /\ UNCHANGED << STUB_MODE, LOW_DATA, cache, reqs, arrived, completed, calls, fs, evidence,
                    _cache, t_last >>

Next ==
    \/ \E request \in Inputs :
          TriageEnter(request.target, request.depth, request.include_enrichment)
    \/ \E i \in 1..Len(reqs) : MockCveDone(i)
    \/ \E i \in 1..Len(reqs) : MockGithubDone(i)
    \/ \E i \in 1..Len(reqs), name \in ReplyNames : LookupDone(i, name)
    \/ \E i \in 1..Len(reqs) : LookupClientTimeout(i)
    \/ \E i \in 1..Len(reqs) : WaitForTimeout(i)
    \/ \E i \in 1..Len(reqs), fail \in { "none", "getsize", "rename", "open", "write" } :
          TriageReturn(i, fail)
    \/ \E d \in TickSteps \cup { Deadline(reqs[i]) - now : i \in 1..Len(reqs) } : Tick(d)
    \/ \E d \in IdleSteps : Idle(d)

Spec == Init /\ [][Next]_vars

\* ------------------------------------------------------------ test_main.py
\* test_main.py:98
t_key(target, depth, include_enrichment) == << target, depth, include_enrichment >>

\* test_main.py:44: the entry is dropped once it is older than the TTL
Expired(ts, t) == t - ts > CACHE_TTL_SECONDS

\* test_main.py:39-47: what _cache_get returns, and the cache it leaves
_cache_get(c, key, t) ==
    IF key \notin DOMAIN c
    THEN [ found |-> FALSE, cache |-> c ]
    ELSE IF Expired(c[key].ts, t)
         THEN [ found |-> FALSE, cache |-> Without(c, key) ]
         ELSE [ found |-> TRUE, data |-> c[key].data, cache |-> c ]

\* test_main.py:49-50
_cache_set(c, key, data, t) == With(c, key, [ ts |-> t, data |-> data ])

\* test_main.py:53-87
_stub_triage(target, depth, include_enrichment, t) ==
    [ assets    |-> << target >>,
      tech      |-> << >>,
      cves      |-> Slice(<< [ cve_id |-> "CVE-2025-0001", cvss |-> 75,
                               summary |-> << "Example summary related to ", target >>,
                               severity |-> "High" ],
                             [ cve_id |-> "CVE-2024-1234", cvss |-> 59,
                               summary |-> << "Older issue impacting common libs" >>,
                               severity |-> "Medium" ] >>, 8),
      exposures |-> << << "Passive hypothesis: public-facing services for ", target,
                          " may disclose versions." >> >>,
      checks    |-> << "Review security headers", "Check recent CVEs",
                       "Evaluate CDN/WAF hints" >>,
      sources   |-> << [ tool |-> "stub-cve", timestamp |-> << t, "Z" >> ],
                       [ tool |-> "stub-github", timestamp |-> << t, "Z" >> ] >> ]

T_Inputs ==
    { [ target |-> << "a" >>, depth |-> d, include_enrichment |-> e ] :
        d \in { "quick", "standard" }, e \in BOOLEAN }

\* test_main.py:95-107: the handler is synchronous
T_Triage(target, depth, include_enrichment) ==
    /\ arrived < MaxRequests
    /\ arrived' = arrived + 1
    /\ LET key  == t_key(target, depth, include_enrichment)
           got  == _cache_get(_cache, key, now)
           data == _stub_triage(target, depth, include_enrichment, now)
           seen == IF key \in DOMAIN _cache THEN now - _cache[key].ts ELSE -1
       IN  IF got.found
           THEN /\ _cache' = got.cache
                /\ t_last' = [ kind |-> "return", key |-> key, seen |-> seen, hit |-> TRUE,
                               evicted |-> key \in DOMAIN _cache /\ key \notin DOMAIN got.cache,
                               kept |-> got.cache = _cache,
                               response |-> got.data ]
           ELSE /\ _cache' = _cache_set(got.cache, key, data, now)
                /\ t_last' = [ kind |-> "return", key |-> key, seen |-> seen, hit |-> FALSE,
                               evicted |-> key \in DOMAIN _cache /\ key \notin DOMAIN got.cache,
                               kept |-> got.cache = _cache,
                               response |-> data ]
    /\ UNCHANGED << STUB_MODE, LOW_DATA, now, cache, reqs, completed, last, calls, fs, evidence >>

\* time passes between two requests
T_Tick(d) ==
    /\ now + d <= MaxClock
    /\ now' = now + d
    /\ t_last' = [ kind |-> "step" ]
    /\ UNCHANGED << STUB_MODE, LOW_DATA, cache, reqs, arrived, completed, last, calls, fs,
                    evidence, _cache >>

TestNext ==
    \/ \E request \in T_Inputs :
          T_Triage(request.target, request.depth, request.include_enrichment)
    \/ \E d \in IdleSteps : T_Tick(d)

TestSpec == Init /\ [][TestNext]_vars

\* ------------------------------------------------------------ log_evidence alone
\* the targets of the runs that reach main.py:195
LogTargets == { << "a" >>, << BLOCK >> }

\* main.py:195: a cache-miss run has shaped its response and calls log_evidence
LogEvidence(target, fail) ==
    /\ evidence < MaxLogCalls
    /\ fail \in LogFailures(fs)
    /\ LET response == Shape(target, mock_cve_search(target, 5),
                             mock_github_search(target, 5), Sources(TRUE, now))
           logged   == log_evidence(fs, target, response, now, fail)
       IN  /\ fs' = logged.fs
           /\ last' = [ kind |-> "log", error |-> logged.error,
                        line |-> Line(target, response, now) ]
    /\ evidence' = evidence + 1
    /\ UNCHANGED << STUB_MODE, LOW_DATA, now, cache, reqs, arrived, completed, calls,
                    _cache, t_last >>

\* the clock of strftime('%Y%m%d%H%M%S') moves on to the next second
NextSecond ==
    /\ now < MaxLogSeconds
    /\ now' = now + 1
    /\ last' = [ kind |-> "step" ]
    /\ UNCHANGED << STUB_MODE, LOW_DATA, cache, reqs, arrived, completed, calls, fs, evidence,
                    _cache, t_last >>

LogNext ==
    \/ \E target \in LogTargets, fail \in { "none", "getsize", "rename", "open", "write" } :
          LogEvidence(target, fail)
    \/ NextSecond

LogSpec == Init /\ [][LogNext]_vars

\* ------------------------------------------------------------ log_evidence step by step
\* The I/O steps of log_evidence, for runs of triage that are under way together.
\* A run is a record of reqs: pc "await" while it waits for its adapters, then the
\* step of log_evidence it is about to take, then "done".
LogSteps == { "getsize", "rename", "open", "write" }

\* an event loop with threads in place of coroutines: a run is resumed at any time
EventLoopFreeThreaded == TRUE

\* main.py:141, 204: triage is a coroutine and log_evidence awaits nothing, so the
\* event loop resumes or starts a run only when no run is inside log_evidence
EventLoopFree == \A i \in 1..Len(reqs) : reqs[i].pc \notin LogSteps

\* main.py:141-176: a request arrives and its run goes to wait for its adapters
WriterStart(target) ==
    /\ EventLoopFree
    /\ arrived < MaxWriters
    /\ arrived' = arrived + 1
    /\ reqs' = Append(reqs, [ target |-> target, pc |-> "await", rotate |-> FALSE,
                              error |-> FALSE, response |-> None, fs0 |-> fs, fs1 |-> fs ])
    /\ last' = [ kind |-> "step" ]
    /\ UNCHANGED << STUB_MODE, LOW_DATA, now, cache, completed, calls, fs, evidence,
                    _cache, t_last >>

\* main.py:165-195: the awaits have returned; the run shapes its response and
\* enters log_evidence
WriterResume(i) ==
    /\ EventLoopFree
    /\ reqs[i].pc = "await"
    /\ reqs' = [ reqs EXCEPT ![i].pc = "getsize",
                             ![i].fs0 = fs,
                             ![i].response =
                                 Shape(reqs[i].target, mock_cve_search(reqs[i].target, 5),
                                       mock_github_search(reqs[i].target, 5),
                                       Sources(TRUE, now)) ]
    /\ evidence' = evidence + 1
    /\ last' = [ kind |-> "step" ]
    /\ UNCHANGED << STUB_MODE, LOW_DATA, now, cache, arrived, completed, calls, fs,
                    _cache, t_last >>

\* main.py:210-214: the next I/O step of log_evidence is taken
WriterStep(i) ==
    /\ reqs[i].pc \in LogSteps
    /\ LET r == reqs[i]
       IN  CASE r.pc = "getsize" ->
                  LET rotate == fs.log.exists /\ Bytes(fs.log.content) > MAX_SIZE
                  IN  /\ reqs' = [ reqs EXCEPT ![i].rotate = rotate,
                                               ![i].pc = IF rotate THEN "rename" ELSE "open" ]
                      /\ fs' = fs
                      /\ last' = [ kind |-> "io", op |-> "getsize", writer |-> i ]
             [] r.pc = "rename" ->
                  IF fs.log.exists
                  THEN /\ fs' = [ log     |-> NoFile,
                                  backups |-> With(fs.backups, Suffix(now), fs.log.content) ]
                       /\ reqs' = [ reqs EXCEPT ![i].pc = "open" ]
                       /\ last' = [ kind |-> "io", op |-> "rename", writer |-> i ]
                  ELSE /\ fs' = fs
                       /\ reqs' = [ reqs EXCEPT ![i].pc = "done", ![i].error = TRUE,
                                                ![i].fs1 = fs ]
                       /\ last' = [ kind |-> "io", op |-> "rename_failed", writer |-> i ]
             [] r.pc = "open" ->
                  /\ fs' = [ fs EXCEPT !.log.exists = TRUE ]
                  /\ reqs' = [ reqs EXCEPT ![i].pc = "write" ]
                  /\ last' = [ kind |-> "io", op |-> "open", writer |-> i ]
             [] r.pc = "write" ->
                  /\ fs' = [ fs EXCEPT !.log.exists = TRUE,
                                       !.log.content =
                                           Append(@, Line(r.target, r.response, now)) ]
                  /\ reqs' = [ reqs EXCEPT ![i].pc = "done", ![i].fs1 = fs' ]
                  /\ last' = [ kind |-> "io", op |-> "write", writer |-> i ]
    /\ UNCHANGED << STUB_MODE, LOW_DATA, now, cache, arrived, completed, calls, evidence,
                    _cache, t_last >>

\* main.py:215: the I/O step raises; log_evidence reports it and returns
WriterFail(i) ==
    /\ reqs[i].pc \in LogSteps
    /\ reqs[i].pc = "getsize" => fs.log.exists
    /\ reqs' = [ reqs EXCEPT ![i].pc = "done", ![i].error = TRUE, ![i].fs1 = fs ]
    /\ last' = [ kind |-> "io", op |-> "raised", writer |-> i ]
    /\ UNCHANGED << STUB_MODE, LOW_DATA, now, cache, arrived, completed, calls, fs, evidence,
                    _cache, t_last >>

WriterNext ==
    \/ \E target \in LogTargets : WriterStart(target)
    \/ \E i \in 1..Len(reqs) : WriterResume(i)
    \/ \E i \in 1..Len(reqs) : WriterStep(i)
    \/ \E i \in 1..Len(reqs) : WriterFail(i)

WriterSpec == Init /\ [][WriterNext]_vars

\* ------------------------------------------------------------ the cache key alone
\* what targets are made of: a plain character, the separator, and the names the
\* key is built from
KeyParts ==
    { << "a" >>, << ":" >>, Chars("quick"), Chars("standard"), Chars("True"),
      Chars("False"), Chars("stub"), Chars("nvd") }

\* the targets: up to n parts joined by the separator
RECURSIVE KeyTargets(_)
KeyTargets(n) ==
    IF n <= 1
    THEN KeyParts
    ELSE KeyTargets(n - 1)
           \cup { t \o << ":" >> \o part : t \in KeyTargets(n - 1), part \in KeyParts }

\* main.py:143: triage computes the key of a request
ComputeKey(target, depth, include_enrichment) ==
    /\ last.kind = "init"
    /\ last' = [ kind |-> "key", target |-> target, depth |-> depth,
                 include_enrichment |-> include_enrichment, stub |-> STUB_MODE,
                 key |-> cache_key(target, depth, include_enrichment, STUB_MODE) ]
    /\ UNCHANGED << STUB_MODE, LOW_DATA, now, cache, reqs, arrived, completed, calls, fs,
                    evidence, _cache, t_last >>

KeyNext ==
    \E target \in KeyTargets(MaxKeyParts), depth \in { "quick", "standard" },
       include_enrichment \in BOOLEAN :
          ComputeKey(target, depth, include_enrichment)

KeySpec == Init /\ [][KeyNext]_vars

\* ------------------------------------------------------------ normalisation alone
\* the raw items of the upstream payload, by what their parts look like
DescKinds == { "absent", "empty", "short", "long", "no_value" }

MetricKinds ==
    { "no_cve", "absent", "unrecognised", "v31", "v31_no_severity", "v31_no_score",
      "v31_empty", "v2", "v2_flat", "v2_no_score", "v2_empty", "both" }

\* scores in tenths
Scores == { 0, 50, 69, 70, 81, 100, 105 }

SeverityNames == { "LOW", "MEDIUM", "HIGH", "CRITICAL", "NONE" }

LongText == [ j \in 1..(SUMMARY_CAP + 1) |-> IF j <= SUMMARY_CAP THEN "x" ELSE "y" ]

ShortDescriptions ==
    << [ lang |-> "en", value |-> << "s" >> ], [ lang |-> "es", value |-> << "t" >> ] >>

LongDescriptions == << [ lang |-> "en", value |-> LongText ] >>

DescriptionsOf(d) ==
    CASE d = "empty"    -> << >>
      [] d = "short"    -> ShortDescriptions
      [] d = "long"     -> LongDescriptions
      [] d = "no_value" -> << [ lang |-> "en" ] >>

\* an entry of the older schema, for items that carry both
OlderEntry == [ cvssData |-> [ baseScore |-> 75 ], baseSeverity |-> "HIGH" ]

MetricsOf(m, score, sev) ==
    CASE m = "unrecognised"    -> [ cvssMetricV30 |->
                                      << [ cvssData |-> [ baseScore |-> score ],
                                           baseSeverity |-> sev ] >> ]
      [] m = "v31"             -> [ cvssMetricV31 |->
                                      << [ cvssData |-> [ baseScore |-> score ],
                                           baseSeverity |-> sev ] >> ]
      [] m = "v31_no_severity" -> [ cvssMetricV31 |->
                                      << [ cvssData |-> [ baseScore |-> score ] ] >> ]
      [] m = "v31_no_score"    -> [ cvssMetricV31 |-> << [ baseSeverity |-> sev ] >> ]
      [] m = "v31_empty"       -> [ cvssMetricV31 |-> << >> ]
      [] m = "v2"              -> [ cvssMetricV2 |->
                                      << [ cvssData |-> [ baseScore |-> score ],
                                           baseSeverity |-> sev ] >> ]
      [] m = "v2_flat"         -> [ cvssMetricV2 |-> << [ baseScore |-> score ] >> ]
      [] m = "v2_no_score"     -> [ cvssMetricV2 |-> << [ baseSeverity |-> sev ] >> ]
      [] m = "v2_empty"        -> [ cvssMetricV2 |-> << >> ]
      [] m = "both"            -> [ cvssMetricV31 |->
                                      << [ cvssData |-> [ baseScore |-> score ],
                                           baseSeverity |-> sev ] >>,
                                    cvssMetricV2 |-> << OlderEntry >> ]

RawItemOf(d, m, score, sev) ==
    IF m = "no_cve"
    THEN [ id |-> "CVE-1" ]
    ELSE IF d = "absent" /\ m = "absent"
         THEN [ cve |-> [ id |-> "CVE-1" ] ]
         ELSE IF d = "absent"
              THEN [ cve |-> [ id |-> "CVE-1", metrics |-> MetricsOf(m, score, sev) ] ]
              ELSE IF m = "absent"
                   THEN [ cve |-> [ id |-> "CVE-1", descriptions |-> DescriptionsOf(d) ] ]
                   ELSE [ cve |-> [ id |-> "CVE-1", descriptions |-> DescriptionsOf(d),
                                    metrics |-> MetricsOf(m, score, sev) ] ]

\* the live adapter has received a payload with one raw item
NormInit ==
    /\ STUB_MODE = FALSE
    /\ LOW_DATA \in BOOLEAN
    /\ now = 0
    /\ cache = EmptyCache
    /\ reqs = << >>
    /\ arrived = 0
    /\ completed = 0
    /\ \E d \in DescKinds, m \in MetricKinds, score \in Scores, sev \in SeverityNames :
          last = [ kind |-> "raw", raw |-> RawItemOf(d, m, score, sev) ]
    /\ calls = [ mock_cve_search |-> 0, mock_github_search |-> 0, _lookup_cves_nvd |-> 0 ]
    /\ fs \in { [ log |-> l, backups |-> EmptyCache ] : l \in InitialLogs }
    /\ evidence = 0
    /\ _cache = EmptyCache
    /\ t_last = [ kind |-> "init" ]

\* main.py:118-133: one turn of the loop of _lookup_cves_nvd on the raw item
NormalizeItem ==
    /\ last.kind = "raw"
    /\ last' = IF ItemRaises(last.raw)
               THEN [ kind |-> "item", raw |-> last.raw, raised |-> TRUE ]
               ELSE [ kind |-> "item", raw |-> last.raw, raised |-> FALSE,
                      rec |-> Normalize(last.raw) ]
    /\ UNCHANGED << STUB_MODE, LOW_DATA, now, cache, reqs, arrived, completed, calls, fs,
                    evidence, _cache, t_last >>

NormNext == NormalizeItem

NormSpec == NormInit /\ [][NormNext]_vars

\* ================================================================ claims
Served == Ret /\ last.r.status = 200

\* C1: every response triage returns, fresh or from the cache, and every value
\* stored in the cache has at most 8 entries in cves, whatever the adapter returned.
C1_CvesAtMostEight ==
    /\ Served => Len(last.r.response.cves) <= 8
    /\ \A k \in DOMAIN cache : Len(cache[k].data.cves) <= 8

\* an adapter returned more than 8 records and the response carries 8 of them
C1_Witness ==
    /\ Served
    /\ Len(last.r.cves) > 8
    /\ Len(last.r.response.cves) = 8

\* C2: with caching enabled, a request that arrives while the cache holds an entry
\* for its key that is younger than the TTL returns that entry's response, which
\* is the response returned to the request that stored it (sources and their
\* timestamps included), and it invokes no adapter: the call counts are unchanged.
C2_RepeatWithinTtlServedFromCache ==
    LOW_DATA =>
        /\ \A i \in 1..Len(reqs) : ~ (reqs[i].seen >= 0 /\ reqs[i].seen < 900)
        /\ (Ret /\ last.r.seen >= 0 /\ last.r.seen < 900) =>
              /\ last.r.hit
              /\ last.r.status = 200
              /\ last.r.key \in DOMAIN cache
              /\ last.r.response = cache[last.r.key].data
              /\ last.r.invoked = 0
              /\ calls = last.calls0
        /\ (Served /\ ~ last.r.hit) =>
              /\ last.r.key \in DOMAIN cache
              /\ cache[last.r.key].data = last.r.response

\* a second request for a key was served from the cache some time after the first
C2_Witness ==
    /\ LOW_DATA
    /\ Ret
    /\ last.r.hit
    /\ last.r.seen > 0
    /\ arrived = 2
    /\ calls.mock_cve_search + calls._lookup_cves_nvd = 1

\* C3: a cache read returns the stored value only while now - insertedAt < TTL; from
\* now - insertedAt = TTL on it returns nothing and the entry is removed; a read of
\* an absent key returns nothing.  Stated of get_cached (main.py) and of _cache_get
\* (test_main.py).
C3_ReadHonoursTtl ==
    /\ (Ret /\ LOW_DATA) =>
          /\ last.r.hit => (last.r.seen >= 0 /\ last.r.seen < 900)
          /\ last.r.seen >= 900 => (~ last.r.hit /\ last.r.evicted)
          /\ last.r.seen = -1 => (~ last.r.hit /\ last.r.kept)
    /\ t_last.kind = "return" =>
          /\ t_last.hit => (t_last.seen >= 0 /\ t_last.seen < 900)
          /\ t_last.seen >= 900 => (~ t_last.hit /\ t_last.evicted)
          /\ t_last.seen = -1 => (~ t_last.hit /\ t_last.kept)

Overrun == Ret /\ ~ last.r.hit /\ last.t_end - last.r.start >= Timeout(last.r.depth)
              /\ "cancelled" \in { last.r.cves_task, last.r.github_task }

\* C5: on a cache miss, when an adapter call has not completed within the timeout
\* window of the depth (10 quick, 20 standard) at the time it is given up, the
\* invocation ends with Timeout (504) and returns no response, also when the other
\* adapter did finish; and a response is only returned when the last awaited call
\* returned within its window.
C5_TimeoutNeverPartial ==
    /\ Overrun =>
          /\ last.r.status = 504
          /\ last.r.detail = "Request timeout"
          /\ last.r.response = None
    /\ (Served /\ ~ last.r.hit) =>
          /\ last.t_end - last.r.start <= Timeout(last.r.depth)
          /\ last.r.cves_task = "done"
          /\ last.r.github_task = "done"

\* the vulnerability adapter finished, the exposure adapter did not: 504
C5_Witness ==
    /\ Overrun
    /\ last.r.cves_task = "done"
    /\ Len(last.r.cves) > 0
    /\ last.r.github_task = "cancelled"
    /\ last.r.status = 504

\* C6: in stub mode and in live mode both adapters run under one shared window: a
\* response is returned only within timeout (10 quick, 20 standard) of the start of
\* the first adapter call, and otherwise the invocation fails no later than that.
C6_SharedWindow ==
    (Ret /\ ~ last.r.hit) =>
        last.t_end - last.r.t0 <= (IF last.r.depth = "quick" THEN 10 ELSE 20)

\* C7: every non-timeout failure of a cache-miss run ends as UpstreamFailure, 502 with
\* the detail 'Upstream service error'; triage ends with a response, with 504
\* 'Request timeout' or with 502 'Upstream service error', nothing else.
C7_FailuresUniform ==
    Ret =>
        /\ \/ last.r.status = 200 /\ last.r.response # None /\ last.r.exc = NoExc
           \/ last.r.status = 504 /\ last.r.detail = "Request timeout"
                                  /\ last.r.response = None
           \/ last.r.status = 502 /\ last.r.detail = "Upstream service error"
                                  /\ last.r.response = None
        /\ last.r.exc.type \in { "HTTPStatusError", "HTTPException", "JSONDecodeError",
                                 "KeyError", "OSError" } =>
              /\ last.r.status = 502
              /\ last.r.detail = "Upstream service error"

\* the upstream client raised 502 'Upstream too large'; the caller sees the fixed detail
C7_Witness ==
    /\ Ret
    /\ last.r.exc = HTTPException(502, "Upstream too large")
    /\ last.r.status = 502
    /\ last.r.detail = "Upstream service error"

\* C8: in live mode, when the upstream client's own timeout (8 seconds) runs out,
\* triage ends with Timeout (504).
C8_ClientTimeoutIs504 ==
    (Ret /\ last.r.exc.type = "httpx.TimeoutException") => last.r.status = 504

\* C9: the number of evidence records appended (failed attempts counted) is the
\* number of invocations that missed the cache and returned a response; a cache hit
\* appends none and invokes no adapter, and a failed run appends none.
C9_EvidenceOnlyOnMiss ==
    /\ evidence = completed
    /\ (Ret /\ last.r.hit) =>
          /\ evidence = last.evidence0
          /\ calls = last.calls0
          /\ last.r.invoked = 0
    /\ (Ret /\ last.r.status # 200) => evidence = last.evidence0
    /\ (Served /\ ~ last.r.hit) => evidence = last.evidence0 + 1

\* a cache hit after a logged miss: one record for two invocations
C9_Witness ==
    /\ Ret
    /\ last.r.hit
    /\ arrived = 2
    /\ evidence = 1

\* C10: a failure inside the evidence logger does not change the outcome: the
\* request returns its shaped response, which is in the cache already when
\* caching is enabled.
C10_LoggingFailureSwallowed ==
    (Ret /\ last.r.log_error) =>
        /\ last.r.status = 200
        /\ last.r.exc = NoExc
        /\ last.r.response # None
        /\ Len(last.r.response.checks) = 4
        /\ LOW_DATA =>
              /\ last.r.key \in DOMAIN cache
              /\ cache[last.r.key].data = last.r.response

\* the rotation or the write failed, and the response was returned and cached
C10_Witness ==
    /\ Ret
    /\ last.r.log_error
    /\ LOW_DATA
    /\ last.r.status = 200
    /\ cache[last.r.key].data = last.r.response

\* the records kept in api/evidence.log and in its backups
Kept(f) ==
    { f.log.content[j] : j \in 1..Len(f.log.content) }
        \cup UNION { { f.backups[k][j] : j \in 1..Len(f.backups[k]) } : k \in DOMAIN f.backups }

RECURSIVE CountBackups(_, _)
CountBackups(f, names) ==
    IF names = { }
    THEN 0
    ELSE LET k == CHOOSE x \in names : TRUE
         IN  Len(f.backups[k]) + CountBackups(f, names \ { k })

HowMany(f) == Len(f.log.content) + CountBackups(f, DOMAIN f.backups)

\* C11: a successful log_evidence call that finds the log larger than 1 MiB renames
\* it to the backup named by the second and starts a new log with the new line, and
\* no successful call loses a record: all that the log and its backups held is
\* still held afterwards, together with the new line, also when two rotations
\* fall into the same second.
C11_RotationKeepsContent ==
    [][ (last'.kind = "log" /\ ~ last'.error) =>
            /\ (fs.log.exists /\ Bytes(fs.log.content) > 1048576) =>
                   /\ fs'.log.content = << last'.line >>
                   /\ now \in DOMAIN fs'.backups
                   /\ fs'.backups[now] = fs.log.content
            /\ Kept(fs) \subseteq Kept(fs')
            /\ last'.line \in Kept(fs')
            /\ HowMany(fs') = HowMany(fs) + 1 ]_vars

\* C12: the key is an injective function of (target, depth, include_enrichment,
\* mode): a request of any target, depth, flag and mode that has the key of this
\* request is this request, also for targets that contain ':' or the names of
\* depths, flags and modes.
C12_KeyInjective ==
    last.kind = "key" =>
        \A target \in KeyTargets(MaxKeyParts), depth \in { "quick", "standard" },
           include_enrichment \in BOOLEAN, stub \in BOOLEAN :
              cache_key(target, depth, include_enrichment, stub) = last.key =>
                 /\ target = last.target
                 /\ depth = last.depth
                 /\ include_enrichment = last.include_enrichment
                 /\ stub = last.stub

\* the key of a standard request whose target ends like the key of a quick request
C12_Witness ==
    /\ last.kind = "key"
    /\ last.target = << "a" >> \o << ":" >> \o Chars("quick")
    /\ last.depth = "standard"
    /\ last.key = << "a" >> \o << ":" >> \o Chars("quick") \o << ":" >> \o Chars("standard")
                     \o << ":" >> \o Chars(StrBool(last.include_enrichment)) \o << ":" >>
                     \o Chars(IF STUB_MODE THEN "stub" ELSE "nvd")

Normalized == last.kind = "item" /\ ~ last.raised

\* C13: the newest schema wins: with cvssMetricV31 present the record has its score
\* and its severity (capitalised); with cvssMetricV2 only, the score of that schema
\* and High from 7.0 on, Medium below; with neither, 0.0 and Unknown.  The summary
\* is the first description cut to 240 characters, or N/A without descriptions.
C13_SchemaPriority ==
    Normalized =>
        LET c     == IF "cve" \in DOMAIN last.raw THEN last.raw.cve ELSE [ id |-> "CVE-1" ]
            has_m == "metrics" \in DOMAIN c
            has31 == has_m /\ "cvssMetricV31" \in DOMAIN c.metrics
            has2  == has_m /\ "cvssMetricV2" \in DOMAIN c.metrics
            m31   == c.metrics.cvssMetricV31[1]
            m2    == c.metrics.cvssMetricV2[1]
            has_d == "descriptions" \in DOMAIN c /\ Len(c.descriptions) > 0
            rec   == last.rec
        IN  /\ has31 =>
                  /\ "cvssData" \in DOMAIN m31 => rec.cvss = m31.cvssData.baseScore
                  /\ "cvssData" \notin DOMAIN m31 => rec.cvss = 0
                  /\ "baseSeverity" \notin DOMAIN m31 => rec.severity = "Unknown"
                  /\ "baseSeverity" \in DOMAIN m31 =>
                        << m31.baseSeverity, rec.severity >> \in
                            { << "LOW", "Low" >>, << "MEDIUM", "Medium" >>,
                              << "HIGH", "High" >>, << "CRITICAL", "Critical" >>,
                              << "NONE", "None" >> }
            /\ (~ has31 /\ has2) =>
                  /\ "cvssData" \in DOMAIN m2 => rec.cvss = m2.cvssData.baseScore
                  /\ ("cvssData" \notin DOMAIN m2 /\ "baseScore" \in DOMAIN m2) =>
                        rec.cvss = m2.baseScore
                  /\ ("cvssData" \notin DOMAIN m2 /\ "baseScore" \notin DOMAIN m2) =>
                        rec.cvss = 0
                  /\ rec.severity = IF rec.cvss >= 70 THEN "High" ELSE "Medium"
                  /\ rec.cvss = 81 => rec.severity = "High"
                  /\ rec.cvss = 50 => rec.severity = "Medium"
            /\ (~ has31 /\ ~ has2) => (rec.cvss = 0 /\ rec.severity = "Unknown")
            /\ has_d =>
                  /\ Len(rec.summary) = IF Len(c.descriptions[1].value) < 240
                                         THEN Len(c.descriptions[1].value) ELSE 240
                  /\ \A j \in 1..Len(rec.summary) :
                        rec.summary[j] = c.descriptions[1].value[j]
            /\ ~ has_d => rec.summary = << "N", "/", "A" >>

\* both schemas are present and differ; the record follows cvssMetricV31; and a
\* description of 241 characters was cut to 240
C13_Witness ==
    /\ Normalized
    /\ "cve" \in DOMAIN last.raw
    /\ "metrics" \in DOMAIN last.raw.cve
    /\ { "cvssMetricV31", "cvssMetricV2" } \subseteq DOMAIN last.raw.cve.metrics
    /\ last.rec.cvss = 50
    /\ last.rec.severity = "Medium"
    /\ "descriptions" \in DOMAIN last.raw.cve
    /\ Len(last.raw.cve.descriptions) > 0
    /\ Len(last.raw.cve.descriptions[1].value) = 241
    /\ Len(last.rec.summary) = 240

\* C14: every vulnerability record of a response, and every record the live
\* adapter makes of an upstream item it accepts, has a severity among Low, Medium,
\* High, Critical, Unknown and a score from 0 to 10.
C14_SeverityAndScoreInRange ==
    /\ Served =>
          \A j \in 1..Len(last.r.response.cves) :
              /\ last.r.response.cves[j].severity
                    \in { "Low", "Medium", "High", "Critical", "Unknown" }
              /\ last.r.response.cves[j].cvss >= 0
              /\ last.r.response.cves[j].cvss <= 100
    /\ Normalized =>
          /\ last.rec.severity \in { "Low", "Medium", "High", "Critical", "Unknown" }
          /\ last.rec.cvss >= 0
          /\ last.rec.cvss <= 100

\* C15: the limit is 5 for quick and 10 (low-data mode) or 25 for standard; a
\* cache-miss run in live mode sends one request upstream, which asks for
\* min(limit, 10) results, between 1 and 10; a run that fails sends no second one,
\* and a run in stub mode sends none.
C15_LimitsAndSingleCall ==
    LET Ok(r) ==
            /\ r.limit = IF r.depth = "quick" THEN 5 ELSE IF LOW_DATA THEN 10 ELSE 25
            /\ r.hit => r.requested = << >>
            /\ (STUB_MODE /\ ~ r.hit) => r.requested = << >>
            /\ (~ STUB_MODE /\ ~ r.hit) =>
                  /\ Len(r.requested) = 1
                  /\ r.requested[1] = IF r.limit < 10 THEN r.limit ELSE 10
                  /\ r.requested[1] >= 1
                  /\ r.requested[1] <= 10
    IN  /\ \A i \in 1..Len(reqs) : Ok(reqs[i])
        /\ Ret =>
              /\ Ok(last.r)
              /\ calls._lookup_cves_nvd = last.calls0._lookup_cves_nvd
        /\ (~ STUB_MODE /\ ~ LOW_DATA) => calls._lookup_cves_nvd = arrived
        /\ STUB_MODE => calls._lookup_cves_nvd = 0

\* a standard request outside low-data mode: limit 25, 10 results asked for, and
\* the run failed on the upstream reply without a second request
C15_Witness ==
    /\ Ret
    /\ ~ STUB_MODE
    /\ last.r.limit = 25
    /\ last.r.requested = << 10 >>
    /\ last.r.status = 502
    /\ calls._lookup_cves_nvd = arrived

\* C16: outside low-data mode the cache stays empty whatever is requested, no
\* request is served from it and every request invokes the adapters; in low-data
\* mode a cache-miss run that returns a response has stored that response under
\* its key, with the time of the store, when it returns.
C16_CachingIffLowData ==
    /\ ~ LOW_DATA =>
          /\ DOMAIN cache = { }
          /\ \A i \in 1..Len(reqs) : reqs[i].invoked > 0 /\ ~ reqs[i].hit
          /\ Ret => (~ last.r.hit /\ last.r.invoked > 0)
          /\ calls.mock_cve_search + calls._lookup_cves_nvd = arrived
    /\ (LOW_DATA /\ Served /\ ~ last.r.hit) =>
          /\ last.r.key \in DOMAIN cache
          /\ cache[last.r.key] = [ data |-> last.r.response, timestamp |-> now ]

\* outside low-data mode two runs returned responses and the cache is empty
C16_Witness ==
    /\ ~ LOW_DATA
    /\ Served
    /\ completed = 2
    /\ calls.mock_cve_search + calls._lookup_cves_nvd = 2
    /\ DOMAIN cache = { }

\* C17: every cache entry is at all times a whole pair of a shaped response and
\* the time of its store.  Two runs of one key that are under way together have
\* both missed the cache and both invoked the adapters; each stores its response
\* when it returns it, over whatever the other stored, so the entry left is the one
\* of the run that stored last.
C17_LastWriterWins ==
    /\ \A k \in DOMAIN cache :
          /\ DOMAIN cache[k] = { "data", "timestamp" }
          /\ DOMAIN cache[k].data
                = { "assets", "tech", "cves", "exposures", "checks", "sources" }
          /\ cache[k].timestamp >= 0
          /\ cache[k].timestamp <= now
          /\ \A j \in 1..Len(cache[k].data.sources) :
                cache[k].data.sources[j].timestamp = cache[k].timestamp
    /\ \A i \in 1..Len(reqs) : ~ reqs[i].hit /\ reqs[i].invoked > 0
    /\ (LOW_DATA /\ Served /\ ~ last.r.hit) =>
          /\ last.r.key \in DOMAIN cache
          /\ cache[last.r.key] = [ data |-> last.r.response, timestamp |-> now ]

\* two runs of one key overlapped: the second started before the first stored,
\* the first stored, and later the second stored over it
C17_Witness ==
    /\ LOW_DATA
    /\ Served
    /\ ~ last.r.hit
    /\ last.r.seen = -1
    /\ completed = 2
    /\ Cardinality(DOMAIN cache) = 1
    /\ cache[last.r.key].timestamp = now
    /\ \E j \in 1..Len(fs.log.content) :
          /\ fs.log.content[j].kind = "line"
          /\ fs.log.content[j].timestamp > last.r.t0
          /\ fs.log.content[j].timestamp < now

InsideLog == { i \in 1..Len(reqs) : reqs[i].pc \in LogSteps }

\* C18: at most one run is inside log_evidence at a time, and while it is, no other
\* run takes a step and no run starts; the log is renamed only while it is larger
\* than 1 MiB, by the run that found it so, once; a line is appended whole, to the
\* log as the writer's own steps left it; and a call that ends without an error
\* leaves the files as log_evidence taken in one piece does.
C18_LogEvidenceNotInterleaved ==
    /\ [](Cardinality(InsideLog) <= 1)
    /\ [](\A i \in 1..Len(reqs) :
             (reqs[i].pc = "done" /\ ~ reqs[i].error) =>
                 reqs[i].fs1 = log_evidence(reqs[i].fs0, reqs[i].target,
                                            reqs[i].response, now, "none").fs)
    /\ [][ /\ \A i \in InsideLog :
                 /\ Len(reqs') = Len(reqs)
                 /\ \A j \in 1..Len(reqs) : j # i => reqs'[j] = reqs[j]
           /\ fs'.backups # fs.backups =>
                 /\ fs.log.exists
                 /\ Bytes(fs.log.content) > 1048576
                 /\ fs'.backups[now] = fs.log.content
                 /\ ~ fs'.log.exists
           /\ fs'.log.content # fs.log.content =>
                 \/ fs'.log.content = << >>
                 \/ /\ Len(fs'.log.content) = Len(fs.log.content) + 1
                    /\ \A j \in 1..Len(fs.log.content) :
                          fs'.log.content[j] = fs.log.content[j]
                    /\ fs'.log.content[Len(fs'.log.content)].kind = "line" ]_vars

\* a run is inside log_evidence, between the rename of the oversize log and the
\* open of the new one, while another run is still waiting for its adapters
C18_Witness ==
    /\ \E i \in 1..Len(reqs) :
          /\ reqs[i].pc = "open"
          /\ reqs[i].rotate
    /\ \E j \in 1..Len(reqs) : reqs[j].pc = "await"
    /\ ~ fs.log.exists
    /\ DOMAIN fs.backups # { }

\* C19: when triage ends with Timeout, no adapter call of the invocation is still
\* running: those that had not returned are cancelled (both tasks of the join in
\* stub mode), and no record of an adapter call outlives the invocation, so none
\* completes later; the step that surfaces Timeout shapes no response and leaves
\* the cache and the evidence log as they are.
C19_TimeoutCancelsBoth ==
    /\ []((Ret /\ last.r.status = 504) =>
             /\ last.r.exc.type = "TimeoutError"
             /\ last.r.cves_task \in { "done", "cancelled" }
             /\ last.r.github_task \in { "done", "cancelled", "none" }
             /\ "cancelled" \in { last.r.cves_task, last.r.github_task }
             /\ last.r.github_task = "none" => last.r.cves_task = "cancelled"
             /\ last.r.response = None
             /\ evidence = last.evidence0)
    /\ [](\A i \in 1..Len(reqs) :
             /\ reqs[i].status = 0
             /\ "cancelled" \notin { reqs[i].cves_task, reqs[i].github_task })
    /\ [][ (last'.kind = "return" /\ last'.r.status = 504) =>
               /\ cache' = cache
               /\ fs' = fs
               /\ Len(reqs') = Len(reqs) - 1 ]_vars

\* stub mode: the shared window ran out with both tasks unfinished; both are cancelled
C19_Witness ==
    /\ Ret
    /\ STUB_MODE
    /\ last.r.status = 504
    /\ last.r.cves_task = "cancelled"
    /\ last.r.github_task = "cancelled"
    /\ last.t_end = last.r.t0 + Timeout(last.r.depth)

\* C20: a run that ends in Timeout (504) or UpstreamFailure (502) stores nothing in
\* the cache and appends no evidence record: its last step leaves cache, log and
\* counters as they are, so while no run has returned a response the cache is empty
\* and every request invokes the adapters again.  The cache is written and
\* log_evidence is called only by the step that returns a response, after both
\* adapter calls have returned and the response is shaped.
C20_FailuresLeaveNoTrace ==
    /\ [](completed = 0 =>
             /\ DOMAIN cache = { }
             /\ evidence = 0
             /\ Ret => (~ last.r.hit /\ last.r.invoked > 0))
    /\ []((Ret /\ last.r.status # 200) =>
             /\ last.r.status \in { 502, 504 }
             /\ last.r.response = None
             /\ evidence = last.evidence0)
    /\ [][ (last'.kind = "return" /\ last'.r.status # 200) =>
               /\ cache' = cache
               /\ fs' = fs
               /\ evidence' = evidence
               /\ completed' = completed ]_vars
    /\ [][ ((\E k \in DOMAIN cache' : k \notin DOMAIN cache \/ cache'[k] # cache[k])
              \/ fs' # fs \/ evidence' # evidence) =>
               /\ last'.kind = "return"
               /\ last'.r.status = 200
               /\ ~ last'.r.hit
               /\ last'.r.cves_task = "done"
               /\ last'.r.github_task = "done"
               /\ Len(last'.r.response.exposures) = Len(last'.r.github_results)
               /\ Len(last'.r.response.cves) <= Len(last'.r.cves)
               /\ LOW_DATA => cache'[last'.r.key].data = last'.r.response ]_vars

\* with caching on, a second request failed after the first had failed: nothing was
\* cached, so the adapters were invoked again, and nothing is stored or logged
C20_Witness ==
    /\ LOW_DATA
    /\ Ret
    /\ last.r.status = 502
    /\ arrived = 2
    /\ completed = 0
    /\ Len(reqs) = 0
    /\ calls._lookup_cves_nvd = 2
    /\ DOMAIN cache = { }
    /\ evidence = 0

====
